---- MODULE Spec2Model ----
(***************************************************************************)
(* DBHandlerWrapper: the REST dispatch layer that turns a DBHandler into   *)
(* an HTTP service (mindsdb/integrations/handlers_wrapper/                 *)
(* db_handler_wrapper.py).                                                 *)
(*                                                                         *)
(* A request is served by one view function.  Every view function has the  *)
(* same three stages, and a worker thread can be preempted between them:   *)
(*   entry      read the request body (and, for /query, run the codec)     *)
(*   get_handler  look the handler class up and construct an instance      *)
(*   capability   call the handler's method and wrap what it returns       *)
(* pc[r] is the stage request slot r is at.                                *)
(***************************************************************************)
EXTENDS Integers, Sequences, FiniteSets, TLC

VARIABLES pc, op, route, req, arg, handler, resolves, calls, resp, fault

vars == <<pc, op, route, req, arg, handler, resolves, calls, resp, fault>>

(***************************************************************************)
(* Bounds.                                                                 *)
(***************************************************************************)
\* Number of request slots (worker threads) served concurrently.
NReq == 2

Requests == 1..NReq

(***************************************************************************)
(* Python values.  Every value is a tag and a tuple of naturals, so that   *)
(* any two values can be compared.                                         *)
(***************************************************************************)
None == [t |-> "None", v |-> <<>>]

\* A key that the JSON object does not carry.
Missing == [t |-> "Missing", v |-> <<>>]

PyStr(s) == [t |-> "str", v |-> s]

PyInt(n) == [t |-> "int", v |-> <<n>>]

PyTuple1(n) == [t |-> "tuple1", v |-> <<n>>]

\* A JSON object used as a mapping of construction parameters.
Mapping(k) == [t |-> "map", v |-> <<k>>]

NULL == "null"

(***************************************************************************)
(* Byte and text helpers.                                                  *)
(***************************************************************************)
RECURSIVE Flatten(_)
Flatten(ss) == IF ss = <<>> THEN <<>> ELSE Head(ss) \o Flatten(Tail(ss))

\* str.encode("utf-8") of one code point.
Utf8Char(cp) ==
    IF cp < 128 THEN <<cp>>
    ELSE IF cp < 2048 THEN <<192 + (cp \div 64), 128 + (cp % 64)>>
    ELSE <<224 + (cp \div 4096), 128 + ((cp \div 64) % 64), 128 + (cp % 64)>>

\* _json["query"].encode("utf-8"): AttributeError unless the value is a str.
Utf8Encode(val) ==
    IF val.t = "str"
    THEN [ok |-> TRUE, exc |-> NULL,
          bytes |-> Flatten([i \in 1..Len(val.v) |-> Utf8Char(val.v[i])])]
    ELSE [ok |-> FALSE, exc |-> "AttributeError", bytes |-> <<>>]

\* The base64 alphabet: the 6-bit value of an ASCII byte, 64 when it has none.
B64Val(b) ==
    IF b >= 65 /\ b <= 90 THEN b - 65
    ELSE IF b >= 97 /\ b <= 122 THEN b - 71
    ELSE IF b >= 48 /\ b <= 57 THEN b + 4
    ELSE IF b = 43 THEN 62
    ELSE IF b = 47 THEN 63
    ELSE 64

B64Pad == 61

\* base64.b64decode(s) with validate=False, which is binascii.a2b_base64 in
\* its non-strict mode: a byte outside the alphabet is skipped, a completed
\* pad sequence ends the input, and only a dangling quad is an error.
RECURSIVE A2bBase64(_, _, _, _, _)
A2bBase64(bs, quad, left, pads, out) ==
    IF bs = <<>>
    THEN IF quad # 0
         THEN [ok |-> FALSE, exc |-> "binascii.Error", bytes |-> <<>>]
         ELSE [ok |-> TRUE, exc |-> NULL, bytes |-> out]
    ELSE LET ch == Head(bs)
             rest == Tail(bs)
             val == B64Val(ch)
         IN IF ch = B64Pad
            THEN IF quad >= 2
                 THEN IF quad + pads + 1 >= 4
                      THEN [ok |-> TRUE, exc |-> NULL, bytes |-> out]
                      ELSE A2bBase64(rest, quad, left, pads + 1, out)
                 ELSE A2bBase64(rest, quad, left, pads, out)
            ELSE IF val >= 64
            THEN A2bBase64(rest, quad, left, pads, out)
            ELSE CASE quad = 0 -> A2bBase64(rest, 1, val, 0, out)
                   [] quad = 1 ->
                        A2bBase64(rest, 2, val % 16, 0,
                                  Append(out, (left * 4 + (val \div 16)) % 256))
                   [] quad = 2 ->
                        A2bBase64(rest, 3, val % 4, 0,
                                  Append(out, (left * 16 + (val \div 4)) % 256))
                   [] OTHER ->
                        A2bBase64(rest, 0, 0, 0,
                                  Append(out, (left * 64 + val) % 256))

b64decode(bs) == A2bBase64(bs, 0, 0, 0, <<>>)

(***************************************************************************)
(* pickle.loads on the opcodes the serializer emits for the query objects  *)
(* of this model: PROTO, FRAME, NONE, BININT1, BININT2, TUPLE1, MEMOIZE,   *)
(* STOP.  The machine reads opcodes until STOP and returns the top of the  *)
(* stack; bytes after STOP are never read.  Running out of input where an  *)
(* opcode is due is EOFError; a truncated operand is UnpicklingError.      *)
(***************************************************************************)
OpPROTO == 128

OpFRAME == 149

OpNONE == 78

OpBININT1 == 75

OpBININT2 == 77

OpTUPLE1 == 133

OpMEMOIZE == 148

OpSTOP == 46

HighestProtocol == 5

PickleError(e) == [ok |-> FALSE, exc |-> e, obj |-> None]

\* Little-endian value of the first n bytes of bs.
RECURSIVE LittleEndian(_, _)
LittleEndian(bs, n) ==
    IF n = 0 THEN 0 ELSE Head(bs) + 256 * LittleEndian(Tail(bs), n - 1)

RECURSIVE Unpickle(_, _)
Unpickle(bs, stack) ==
    IF bs = <<>> THEN PickleError("EOFError")
    ELSE LET o == Head(bs)
             rest == Tail(bs)
         IN CASE o = OpPROTO ->
                   IF rest = <<>> THEN PickleError("UnpicklingError")
                   ELSE IF Head(rest) > HighestProtocol THEN PickleError("ValueError")
                   ELSE Unpickle(Tail(rest), stack)
              [] o = OpFRAME ->
                   IF Len(rest) < 8 THEN PickleError("UnpicklingError")
                   ELSE IF Len(rest) - 8 < LittleEndian(rest, 8)
                        THEN PickleError("UnpicklingError")
                        ELSE Unpickle(SubSeq(rest, 9, Len(rest)), stack)
              [] o = OpNONE -> Unpickle(rest, <<None>> \o stack)
              [] o = OpBININT1 ->
                   IF rest = <<>> THEN PickleError("UnpicklingError")
                   ELSE Unpickle(Tail(rest), <<PyInt(Head(rest))>> \o stack)
              [] o = OpBININT2 ->
                   IF Len(rest) < 2 THEN PickleError("UnpicklingError")
                   ELSE Unpickle(SubSeq(rest, 3, Len(rest)),
                                 <<PyInt(LittleEndian(rest, 2))>> \o stack)
              [] o = OpTUPLE1 ->
                   IF stack = <<>> THEN PickleError("UnpicklingError")
                   ELSE IF Head(stack).t # "int" THEN PickleError("Unmodelled")
                   ELSE Unpickle(rest, <<PyTuple1(Head(stack).v[1])>> \o Tail(stack))
              [] o = OpMEMOIZE ->
                   IF stack = <<>> THEN PickleError("UnpicklingError")
                   ELSE Unpickle(rest, stack)
              [] o = OpSTOP ->
                   IF stack = <<>> THEN PickleError("UnpicklingError")
                   ELSE [ok |-> TRUE, exc |-> NULL, obj |-> Head(stack)]
              [] OTHER -> PickleError("UnpicklingError")

pickle_loads(bs) == Unpickle(bs, <<>>)

(***************************************************************************)
(* The caller's side of the Query Transport Codec: pickle.dumps at the     *)
(* default protocol 4, then base64.b64encode, then the text is embedded as *)
(* the `query` string of the JSON body.                                    *)
(***************************************************************************)
DefaultProtocol == 4

FrameSizeMin == 4

\* n as k little-endian bytes.
RECURSIVE ToLittleEndian(_, _)
ToLittleEndian(n, k) ==
    IF k = 0 THEN <<>> ELSE <<n % 256>> \o ToLittleEndian(n \div 256, k - 1)

PickleInt(n) ==
    IF n < 256 THEN <<OpBININT1, n>> ELSE <<OpBININT2>> \o ToLittleEndian(n, 2)

PicklePayload(obj) ==
    CASE obj.t = "None" -> <<OpNONE, OpSTOP>>
      [] obj.t = "int" -> PickleInt(obj.v[1]) \o <<OpSTOP>>
      [] obj.t = "tuple1" -> PickleInt(obj.v[1]) \o <<OpTUPLE1, OpMEMOIZE, OpSTOP>>

pickle_dumps(obj) ==
    LET payload == PicklePayload(obj)
    IN <<OpPROTO, DefaultProtocol>> \o
       (IF Len(payload) >= FrameSizeMin
        THEN <<OpFRAME>> \o ToLittleEndian(Len(payload), 8) \o payload
        ELSE payload)

\* The ASCII byte of a 6-bit value.
B64Char(x) ==
    IF x < 26 THEN x + 65
    ELSE IF x < 52 THEN x + 71
    ELSE IF x < 62 THEN x - 4
    ELSE IF x = 62 THEN 43
    ELSE 47

RECURSIVE b64encode(_)
b64encode(bs) ==
    CASE Len(bs) = 0 -> <<>>
      [] Len(bs) = 1 ->
           <<B64Char(bs[1] \div 4), B64Char((bs[1] % 4) * 16), B64Pad, B64Pad>>
      [] Len(bs) = 2 ->
           <<B64Char(bs[1] \div 4),
             B64Char((bs[1] % 4) * 16 + (bs[2] \div 16)),
             B64Char((bs[2] % 16) * 4), B64Pad>>
      [] OTHER ->
           <<B64Char(bs[1] \div 4),
             B64Char((bs[1] % 4) * 16 + (bs[2] \div 16)),
             B64Char((bs[2] % 16) * 4 + (bs[3] \div 64)),
             B64Char(bs[3] % 64)>> \o b64encode(SubSeq(bs, 4, Len(bs)))

\* bytes.decode("utf-8") of base64 text, which is ASCII.
EncodeQuery(obj) == PyStr(b64encode(pickle_dumps(obj)))

\* RFC 4648 text: alphabet only, whole quads, at most two pads, at the end.
IsValidBase64(val) ==
    /\ val.t = "str"
    /\ Len(val.v) % 4 = 0
    /\ \A i \in 1..Len(val.v) :
          \/ (val.v[i] < 128 /\ B64Val(val.v[i]) < 64)
          \/ (val.v[i] = B64Pad /\ i >= Len(val.v) - 1
               /\ \A j \in i..Len(val.v) : val.v[j] = B64Pad)

(***************************************************************************)
(* The inputs: query objects, `query` texts, request bodies.               *)
(***************************************************************************)
\* Query objects of every serialized length class: 4, 5, 15, 16 and 17
\* bytes, so base64 ends in "==", "=", nothing, "==" and "=".
QueryObjects == {None, PyInt(1), PyInt(300), PyTuple1(1), PyTuple1(300)}

\* "!" after the second character: a byte outside the base64 alphabet.
WithJunk(val) ==
    PyStr(SubSeq(val.v, 1, 2) \o <<33>> \o SubSeq(val.v, 3, Len(val.v)))

\* U+00E9 appended: two UTF-8 bytes, both outside the alphabet.
WithNonAscii(val) == PyStr(val.v \o <<233>>)

DropLast(val) == PyStr(SubSeq(val.v, 1, Len(val.v) - 1))

\* Well-formed base64 of a pickle that lost its last byte.
TruncatedPickle(obj) ==
    LET bs == pickle_dumps(obj)
    IN PyStr(b64encode(SubSeq(bs, 1, Len(bs) - 1)))

\* "SELECT 1", the text a caller of /native_query sends.
SelectOne == PyStr(<<83, 69, 76, 69, 67, 84, 32, 49>>)

QueryTexts ==
    {EncodeQuery(o) : o \in QueryObjects}
      \cup {WithJunk(EncodeQuery(o)) : o \in QueryObjects}
      \cup {WithNonAscii(EncodeQuery(o)) : o \in QueryObjects}
      \cup {DropLast(EncodeQuery(o)) : o \in QueryObjects}
      \cup {TruncatedPickle(o) : o \in QueryObjects}
      \cup {PyStr(<<>>), PyStr(<<65>>), SelectOne}

\* A `query` field of /query: a text, a JSON number, or no field at all.
QueryFields == QueryTexts \cup {PyInt(7), Missing}

\* A `query` field of /native_query.
NativeQueryFields == {SelectOne, PyInt(7), Missing}

StubType == PyStr(<<115, 116, 117, 98>>)

UnknownType == PyStr(<<110, 111, 112, 101>>)

\* Connection-parameter mappings (`handler_kwargs`) a caller may send.
KwargsIds == {1, 2}

HandlerTypes == {StubType, UnknownType, Missing}

HandlerKwargs == {Mapping(k) : k \in KwargsIds} \cup {PyInt(0), Missing}

TableName == PyStr(<<116>>)

\* A request body: no JSON at all, bytes that do not parse, JSON null, a
\* JSON array, or a JSON object with the four fields the views read.
Body(kind, ht, kw, tb, q) ==
    [kind |-> kind, handler_type |-> ht, handler_kwargs |-> kw,
     table |-> tb, query |-> q]

Object(ht, kw, tb, q) == Body("object", ht, kw, tb, q)

NotAnObject ==
    {Body(k, Missing, Missing, Missing, Missing) :
       k \in {"absent", "nonjson", "null", "list"}}

Descriptors ==
    {Object(ht, kw, Missing, Missing) : ht \in HandlerTypes, kw \in HandlerKwargs}

DescriptorBodies == Descriptors \cup NotAnObject

GetColumnsBodies ==
    {Object(ht, kw, tb, Missing) :
       ht \in HandlerTypes, kw \in HandlerKwargs, tb \in {TableName, Missing}}
      \cup NotAnObject

NativeQueryBodies ==
    {Object(ht, kw, Missing, q) :
       ht \in HandlerTypes, kw \in HandlerKwargs, q \in NativeQueryFields}
      \cup NotAnObject

QueryBodies ==
    {Object(ht, Mapping(1), Missing, q) : ht \in HandlerTypes, q \in QueryFields}
      \cup {Object(StubType, kw, Missing, EncodeQuery(PyInt(1))) : kw \in HandlerKwargs}
      \cup NotAnObject

\* The bodies of the get_columns specification: with and without `table`,
\* with a descriptor that resolves and with ones that do not.
ColumnsBodies ==
    {Object(ht, kw, tb, Missing) :
       ht \in HandlerTypes, kw \in {Mapping(1), Missing}, tb \in {TableName, Missing}}

\* The bodies of the concurrent specification: one per parameter mapping,
\* with a table name and a codec-encoded query, so every view accepts them.
SmallBodies ==
    {Object(StubType, Mapping(k), TableName, EncodeQuery(PyInt(k))) : k \in KwargsIds}

(***************************************************************************)
(* Reading the request.                                                    *)
(***************************************************************************)
Raise(e) == [ok |-> FALSE, exc |-> e, val |-> None]

Return(x) == [ok |-> TRUE, exc |-> NULL, val |-> x]

\* flask's request.json: 415 without a JSON body, 400 when it does not
\* parse; both are HTTPException, a subclass of Exception.
request_json(body) ==
    CASE body.kind = "absent" -> Raise("UnsupportedMediaType")
      [] body.kind = "nonjson" -> Raise("BadRequest")
      [] OTHER -> Return(body)

\* json.loads(request.get_data())
json_loads(body) ==
    IF body.kind \in {"absent", "nonjson"}
    THEN Raise("JSONDecodeError")
    ELSE Return(body)

\* json[key]
GetItem(json, key) ==
    CASE json.kind \in {"null", "list"} -> Raise("TypeError")
      [] json[key] = Missing -> Raise("KeyError")
      [] OTHER -> Return(json[key])

\* json.get(key)
Get(json, key) ==
    CASE json.kind \in {"null", "list"} -> Raise("AttributeError")
      [] json[key] = Missing -> Return(None)
      [] OTHER -> Return(json[key])

(***************************************************************************)
(* The Result Envelope: HandlerStatusResponse and HandlerResponse of       *)
(* mindsdb.integrations.libs.response, and their to_json.                  *)
(***************************************************************************)
StatusResponse(success, error_message) ==
    [cls |-> "StatusResponse", success |-> success,
     error_message |-> error_message]

Response(resp_type, error_code, error_message, data) ==
    [cls |-> "Response", resp_type |-> resp_type, error_code |-> error_code,
     error_message |-> error_message, data |-> data]

\* What a capability returns when it returns no response object.
NoneResult == [cls |-> "NoneType"]

to_json(result) ==
    CASE result.cls = "StatusResponse" ->
           Return([shape |-> "status", success |-> result.success,
                   error_message |-> result.error_message])
      [] result.cls = "Response" ->
           Return([shape |-> "query", type |-> result.resp_type,
                   error_code |-> result.error_code,
                   error_message |-> result.error_message,
                   result_set |-> result.data])
      [] OTHER -> Raise("AttributeError")

(***************************************************************************)
(* What each view returns.                                                 *)
(***************************************************************************)
Reply(status, body) == [status |-> status, body |-> body]

NoResp == Reply(0, [shape |-> "none"])

index_return == Reply(200, [shape |-> "text"])

connect_return == Reply(200, [shape |-> "connect", status |-> "OK"])

connect_except(msg) ==
    Reply(500, [shape |-> "connect", status |-> "FAIL", error |-> msg])

disconnect_return == Reply(200, [shape |-> "connect", status |-> "OK"])

disconnect_except(msg) ==
    Reply(500, [shape |-> "connect", status |-> "FAIL", error |-> msg])

\* Mutant: the except branch reports success.
check_connection_except_true(msg) ==
    Reply(500, to_json(StatusResponse(TRUE, msg)).val)

check_connection_except(msg) ==
    Reply(500, to_json(StatusResponse(FALSE, msg)).val)

\* Mutant: the except branch leaves error_code at the class default.
native_query_except_nocode(msg) ==
    Reply(500, to_json(Response("ERROR", 0, msg, NULL)).val)

native_query_except(msg) ==
    Reply(500, to_json(Response("ERROR", 1, msg, NULL)).val)

query_decode_except(msg) ==
    Reply(500, to_json(Response("ERROR", 1, msg, NULL)).val)

query_except(msg) ==
    Reply(500, to_json(Response("ERROR", 1, msg, NULL)).val)

get_tables_except(msg) ==
    Reply(500, to_json(Response("ERROR", 1, msg, NULL)).val)

get_columns_except(msg) ==
    Reply(500, to_json(Response("ERROR", 1, msg, NULL)).val)

\* The except branch around a view's get_handler and capability calls.
ExceptOf(o, msg) ==
    CASE o = "connect" -> connect_except(msg)
      [] o = "disconnect" -> disconnect_except(msg)
      [] o = "check_connection" -> check_connection_except(msg)
      [] o = "native_query" -> native_query_except(msg)
      [] o = "query" -> query_except(msg)
      [] o = "get_tables" -> get_tables_except(msg)
      [] o = "get_columns" -> get_columns_except(msg)

\* `return result.to_json(), 200`, inside the try.
ResultReturn(o, result) ==
    LET j == to_json(result)
    IN IF j.ok THEN Reply(200, j.val) ELSE ExceptOf(o, j.exc)

\* The try body after the capability call.
ReturnOf(o, result) ==
    CASE o = "connect" -> connect_return
      [] o = "disconnect" -> disconnect_return
      [] OTHER -> ResultReturn(o, result)

(***************************************************************************)
(* The handler side: the registry, and what a capability may do.           *)
(***************************************************************************)
Registered == {StubType}

\* handler_helpers.get_handler(handler_type)
RegistryLookup(type) ==
    IF type \in Registered THEN Return(type) ELSE Raise("UnknownBackendType")

Raised(e) == [raised |-> TRUE, exc |-> e, ret |-> NoneResult]

Returned(x) == [raised |-> FALSE, exc |-> NULL, ret |-> x]

Outcomes(o) ==
    CASE o \in {"connect", "disconnect"} ->
           {Raised("HandlerError"), Returned(NoneResult)}
      [] o = "check_connection" ->
           {Raised("HandlerError"), Returned(NoneResult),
            Returned(StatusResponse(TRUE, NULL)),
            Returned(StatusResponse(FALSE, "refused"))}
      [] OTHER ->
           {Raised("HandlerError"), Returned(NoneResult),
            Returned(Response("TABLE", 0, NULL, "rows")),
            Returned(Response("OK", 0, NULL, NULL)),
            Returned(Response("ERROR", 0, "no such table", NULL))}

(***************************************************************************)
(* State.                                                                  *)
(*   pc[r]        "idle", "resolve" (about to call get_handler), "invoke"  *)
(*                (about to call the capability) or "done"                 *)
(*   op[r]        the view function serving the request                    *)
(*   route[r]     method and path, when the request came through the URL   *)
(*                map                                                      *)
(*   req[r]       the request body                                         *)
(*   arg[r]       the view's local `query` or `table`                      *)
(*   handler[r]   the view's local `handler`                               *)
(*   resolves[r]  how many times the request called get_handler            *)
(*   calls[r]     the capability calls the request made                    *)
(*   resp[r]      what the view returned                                   *)
(*   fault[r]     the exception that left the view, if one did             *)
(***************************************************************************)
Ops ==
    {"connect", "disconnect", "check_connection", "get_tables", "get_columns",
     "native_query", "query"}

QueryShaped == {"get_tables", "get_columns", "native_query", "query"}

NoHandler == [owner |-> 0, type |-> Missing, kwargs |-> Missing]

NoRoute == [method |-> "-", path |-> "-"]

NoBody == Body("none", Missing, Missing, Missing, Missing)

Init ==
    /\ pc = [r \in Requests |-> "idle"]
    /\ op = [r \in Requests |-> "none"]
    /\ route = [r \in Requests |-> NoRoute]
    /\ req = [r \in Requests |-> NoBody]
    /\ arg = [r \in Requests |-> None]
    /\ handler = [r \in Requests |-> NoHandler]
    /\ resolves = [r \in Requests |-> 0]
    /\ calls = [r \in Requests |-> <<>>]
    /\ resp = [r \in Requests |-> NoResp]
    /\ fault = [r \in Requests |-> "none"]

\* The view reached its call of get_handler.
Started(r, o, b, a) ==
    /\ pc' = [pc EXCEPT ![r] = "resolve"]
    /\ op' = [op EXCEPT ![r] = o]
    /\ req' = [req EXCEPT ![r] = b]
    /\ arg' = [arg EXCEPT ![r] = a]
    /\ UNCHANGED <<handler, resolves, calls, resp, fault>>

\* The view returned before it called get_handler.
Answered(r, o, b, reply) ==
    /\ pc' = [pc EXCEPT ![r] = "done"]
    /\ op' = [op EXCEPT ![r] = o]
    /\ req' = [req EXCEPT ![r] = b]
    /\ resp' = [resp EXCEPT ![r] = reply]
    /\ UNCHANGED <<arg, handler, resolves, calls, fault>>

\* An exception left the view: the framework answers, not the view.
Escaped(r, o, b, e) ==
    /\ pc' = [pc EXCEPT ![r] = "done"]
    /\ op' = [op EXCEPT ![r] = o]
    /\ req' = [req EXCEPT ![r] = b]
    /\ fault' = [fault EXCEPT ![r] = e]
    /\ UNCHANGED <<arg, handler, resolves, calls, resp>>

index_view(r, b) == Answered(r, "index", b, index_return)

connect_view(r, b) ==
    LET j == request_json(b)
    IN IF j.ok
       THEN Started(r, "connect", b, None)
       ELSE Answered(r, "connect", b, connect_except(j.exc))

disconnect_view(r, b) ==
    LET j == request_json(b)
    IN IF j.ok
       THEN Started(r, "disconnect", b, None)
       ELSE Answered(r, "disconnect", b, disconnect_except(j.exc))

check_connection_view(r, b) ==
    LET j == request_json(b)
    IN IF j.ok
       THEN Started(r, "check_connection", b, None)
       ELSE Answered(r, "check_connection", b, check_connection_except(j.exc))

\* `query = request.json.get("query")` stands before the try.
native_query_view(r, b) ==
    LET j == request_json(b)
        q == IF j.ok THEN Get(j.val, "query") ELSE j
    IN IF q.ok
       THEN Started(r, "native_query", b, q.val)
       ELSE Escaped(r, "native_query", b, q.exc)

\* Mutant: the base64 step is left out.
DecodeQueryNoBase64(b) ==
    LET j == json_loads(b)
        f == IF j.ok THEN GetItem(j.val, "query") ELSE j
        u == IF f.ok THEN Utf8Encode(f.val) ELSE [f EXCEPT !.val = <<>>]
    IN IF u.ok THEN pickle_loads(u.bytes) ELSE PickleError(u.exc)

\* The first try of query: JSON, field, UTF-8, base64, pickle.
DecodeQuery(b) ==
    LET j == json_loads(b)
        f == IF j.ok THEN GetItem(j.val, "query") ELSE j
        u == IF f.ok THEN Utf8Encode(f.val) ELSE [f EXCEPT !.val = <<>>]
        s == IF u.ok THEN b64decode(u.bytes) ELSE [ok |-> FALSE, exc |-> u.exc, bytes |-> <<>>]
    IN IF s.ok THEN pickle_loads(s.bytes) ELSE PickleError(s.exc)

query_view(r, b) ==
    LET d == DecodeQuery(b)
    IN IF d.ok
       THEN Started(r, "query", b, d.obj)
       ELSE Answered(r, "query", b, query_decode_except(d.exc))

get_tables_view(r, b) ==
    LET j == request_json(b)
    IN IF j.ok
       THEN Started(r, "get_tables", b, None)
       ELSE Answered(r, "get_tables", b, get_tables_except(j.exc))

\* Mutant: `table` is read with json["table"], not with .get.
get_columns_view_strict(r, b) ==
    LET j == request_json(b)
        t == IF j.ok THEN GetItem(j.val, "table") ELSE j
    IN IF t.ok
       THEN Started(r, "get_columns", b, t.val)
       ELSE Answered(r, "get_columns", b, get_columns_except(t.exc))

get_columns_view(r, b) ==
    LET j == request_json(b)
        t == IF j.ok THEN Get(j.val, "table") ELSE j
    IN IF t.ok
       THEN Started(r, "get_columns", b, t.val)
       ELSE Answered(r, "get_columns", b, get_columns_except(t.exc))

(***************************************************************************)
(* The operations, called as the view functions they are.                  *)
(***************************************************************************)
connect(r, b) == pc[r] = "idle" /\ connect_view(r, b) /\ UNCHANGED route

disconnect(r, b) == pc[r] = "idle" /\ disconnect_view(r, b) /\ UNCHANGED route

check_connection(r, b) ==
    pc[r] = "idle" /\ check_connection_view(r, b) /\ UNCHANGED route

native_query(r, b) == pc[r] = "idle" /\ native_query_view(r, b) /\ UNCHANGED route

query(r, b) == pc[r] = "idle" /\ query_view(r, b) /\ UNCHANGED route

get_tables(r, b) == pc[r] = "idle" /\ get_tables_view(r, b) /\ UNCHANGED route

get_columns(r, b) == pc[r] = "idle" /\ get_columns_view(r, b) /\ UNCHANGED route

(***************************************************************************)
(* BaseDBWrapper.get_handler                                               *)
(***************************************************************************)
\* The class and the construction arguments, or the exception raised
\* before the constructor runs.
get_handler(json) ==
    LET t == GetItem(json, "handler_type")
        c == IF t.ok THEN RegistryLookup(t.val) ELSE t
        k == IF c.ok THEN GetItem(json, "handler_kwargs") ELSE c
    IN IF ~k.ok THEN [ok |-> FALSE, exc |-> k.exc, type |-> Missing, kwargs |-> Missing]
       ELSE IF k.val.t # "map"
            THEN [ok |-> FALSE, exc |-> "TypeError", type |-> Missing, kwargs |-> Missing]
            ELSE [ok |-> TRUE, exc |-> NULL, type |-> c.val, kwargs |-> k.val]

\* Mutant: an instance another request holds is reused.
CachedHandler(r, type, kwargs) ==
    IF \E q \in Requests : q # r /\ handler[q] # NoHandler
    THEN handler[CHOOSE q \in Requests : q # r /\ handler[q] # NoHandler]
    ELSE [owner |-> r, type |-> type, kwargs |-> kwargs]

\* handler_class(**kwargs): a new instance, owned by the calling request.
NewHandler(r, type, kwargs) == [owner |-> r, type |-> type, kwargs |-> kwargs]

\* Mutant: a failed resolution is tried a second time.
GetHandlerRetry(r) ==
    /\ pc[r] = "resolve"
    /\ resolves' = [resolves EXCEPT ![r] = @ + 1]
    /\ LET g == get_handler(req[r])
       IN \E constructed \in BOOLEAN :
            IF g.ok /\ constructed
            THEN /\ handler' = [handler EXCEPT ![r] = NewHandler(r, g.type, g.kwargs)]
                 /\ pc' = [pc EXCEPT ![r] = "invoke"]
                 /\ UNCHANGED resp
            ELSE IF resolves[r] = 0
            THEN UNCHANGED <<pc, resp, handler>>
            ELSE /\ resp' = [resp EXCEPT ![r] =
                               ExceptOf(op[r], IF g.ok THEN "HandlerError" ELSE g.exc)]
                 /\ pc' = [pc EXCEPT ![r] = "done"]
                 /\ UNCHANGED handler
    /\ UNCHANGED <<op, route, req, arg, calls, fault>>

GetHandler(r) ==
    /\ pc[r] = "resolve"
    /\ resolves' = [resolves EXCEPT ![r] = @ + 1]
    /\ LET g == get_handler(req[r])
       IN \E constructed \in BOOLEAN :
            IF g.ok /\ constructed
            THEN /\ handler' = [handler EXCEPT ![r] = NewHandler(r, g.type, g.kwargs)]
                 /\ pc' = [pc EXCEPT ![r] = "invoke"]
                 /\ UNCHANGED resp
            ELSE /\ resp' = [resp EXCEPT ![r] =
                               ExceptOf(op[r], IF g.ok THEN "HandlerError" ELSE g.exc)]
                 /\ pc' = [pc EXCEPT ![r] = "done"]
                 /\ UNCHANGED handler
    /\ UNCHANGED <<op, route, req, arg, calls, fault>>

(***************************************************************************)
(* The capability call and the view's return.                              *)
(***************************************************************************)
Invoke(r) ==
    /\ pc[r] = "invoke"
    /\ \E out \in Outcomes(op[r]) :
         /\ calls' = [calls EXCEPT ![r] =
                        Append(@, [cap |-> op[r], arg |-> arg[r],
                                   inst |-> handler[r], out |-> out])]
         /\ resp' = [resp EXCEPT ![r] =
                       IF out.raised THEN ExceptOf(op[r], out.exc)
                       ELSE ReturnOf(op[r], out.ret)]
    /\ pc' = [pc EXCEPT ![r] = "done"]
    /\ UNCHANGED <<op, route, req, arg, handler, resolves, fault>>

\* The response is sent; the view's locals, the handler among them, are gone.
Finish(r) ==
    /\ pc[r] = "done"
    /\ pc' = [pc EXCEPT ![r] = "idle"]
    /\ op' = [op EXCEPT ![r] = "none"]
    /\ route' = [route EXCEPT ![r] = NoRoute]
    /\ req' = [req EXCEPT ![r] = NoBody]
    /\ arg' = [arg EXCEPT ![r] = None]
    /\ handler' = [handler EXCEPT ![r] = NoHandler]
    /\ resolves' = [resolves EXCEPT ![r] = 0]
    /\ calls' = [calls EXCEPT ![r] = <<>>]
    /\ resp' = [resp EXCEPT ![r] = NoResp]
    /\ fault' = [fault EXCEPT ![r] = "none"]

(***************************************************************************)
(* The URL map DBHandlerWrapper.__init__ builds, and flask's dispatch.     *)
(***************************************************************************)
\* werkzeug's Rule adds HEAD to a rule that allows GET.
Rule(path, methods, endpoint) ==
    [rule |-> path, endpoint |-> endpoint,
     methods |-> IF "GET" \in methods THEN methods \cup {"HEAD"} ELSE methods]

\* Mutant: disconnect is registered on a path of its own.
UrlMapOwnPath ==
    << Rule("/", {"GET"}, "index"),
       Rule("/connect", {"GET"}, "connect"),
       Rule("/disconnect", {"GET"}, "disconnect"),
       Rule("/check_connection", {"GET"}, "check_connection"),
       Rule("/get_tables", {"GET"}, "get_tables"),
       Rule("/get_columns", {"GET"}, "get_columns"),
       Rule("/native_query", {"POST", "PUT"}, "native_query"),
       Rule("/query", {"GET"}, "query") >>

UrlMap ==
    << Rule("/", {"GET"}, "index"),
       Rule("/connect", {"GET"}, "connect"),
       Rule("/connect", {"GET"}, "disconnect"),
       Rule("/check_connection", {"GET"}, "check_connection"),
       Rule("/get_tables", {"GET"}, "get_tables"),
       Rule("/get_columns", {"GET"}, "get_columns"),
       Rule("/native_query", {"POST", "PUT"}, "native_query"),
       Rule("/query", {"GET"}, "query") >>

\* The first rule, in registration order, that matches path and method.
Match(method, path) ==
    LET onPath == {i \in DOMAIN UrlMap : UrlMap[i].rule = path}
        allowed == {i \in onPath : method \in UrlMap[i].methods}
    IN IF allowed # {}
       THEN UrlMap[CHOOSE i \in allowed : \A j \in allowed : i <= j].endpoint
       ELSE IF onPath # {} THEN "MethodNotAllowed" ELSE "NotFound"

Methods == {"GET", "HEAD", "POST", "PUT", "DELETE"}

Paths ==
    {"/", "/connect", "/disconnect", "/check_connection", "/get_tables",
     "/get_columns", "/native_query", "/query"}

\* No rule matched: werkzeug answers 404 or 405 and no view runs.
Rejected(r, b, e) ==
    /\ pc' = [pc EXCEPT ![r] = "done"]
    /\ req' = [req EXCEPT ![r] = b]
    /\ fault' = [fault EXCEPT ![r] = e]
    /\ UNCHANGED <<op, arg, handler, resolves, calls, resp>>

\* An inbound HTTP request: matched against the URL map, then the view.
Request(r, method, path, b) ==
    /\ pc[r] = "idle"
    /\ route' = [route EXCEPT ![r] = [method |-> method, path |-> path]]
    /\ LET endpoint == Match(method, path)
       IN CASE endpoint = "index" -> index_view(r, b)
            [] endpoint = "connect" -> connect_view(r, b)
            [] endpoint = "disconnect" -> disconnect_view(r, b)
            [] endpoint = "check_connection" -> check_connection_view(r, b)
            [] endpoint = "get_tables" -> get_tables_view(r, b)
            [] endpoint = "get_columns" -> get_columns_view(r, b)
            [] endpoint = "native_query" -> native_query_view(r, b)
            [] endpoint = "query" -> query_view(r, b)
            [] OTHER -> Rejected(r, b, endpoint)

(***************************************************************************)
(* Specifications.                                                         *)
(***************************************************************************)
\* One worker, used where the request slots do not matter.
Sequential == {1}

\* Every operation on every body, one request at a time.
Next ==
    \E r \in Sequential :
        \/ \E b \in DescriptorBodies : connect(r, b)
        \/ \E b \in DescriptorBodies : disconnect(r, b)
        \/ \E b \in DescriptorBodies : check_connection(r, b)
        \/ \E b \in DescriptorBodies : get_tables(r, b)
        \/ \E b \in GetColumnsBodies : get_columns(r, b)
        \/ \E b \in NativeQueryBodies : native_query(r, b)
        \/ \E b \in QueryBodies : query(r, b)
        \/ GetHandler(r)
        \/ Invoke(r)
        \/ Finish(r)

Spec == Init /\ [][Next]_vars

\* Every operation, NReq requests interleaved at their stages.
NextConc ==
    \E r \in Requests :
        \/ \E b \in SmallBodies : connect(r, b)
        \/ \E b \in SmallBodies : disconnect(r, b)
        \/ \E b \in SmallBodies : check_connection(r, b)
        \/ \E b \in SmallBodies : get_tables(r, b)
        \/ \E b \in SmallBodies : get_columns(r, b)
        \/ \E b \in SmallBodies : native_query(r, b)
        \/ \E b \in SmallBodies : query(r, b)
        \/ GetHandler(r)
        \/ Invoke(r)
        \/ Finish(r)

SpecConc == Init /\ [][NextConc]_vars

\* Requests arriving over HTTP, dispatched by the URL map.
NextRoute ==
    \E r \in Sequential :
        \/ \E m \in Methods, p \in Paths, b \in DescriptorBodies : Request(r, m, p, b)
        \/ GetHandler(r)
        \/ Invoke(r)
        \/ Finish(r)

SpecRoute == Init /\ [][NextRoute]_vars

\* get_columns alone, NReq requests interleaved at their stages.
NextColumns ==
    \E r \in Requests :
        \/ \E b \in ColumnsBodies : get_columns(r, b)
        \/ GetHandler(r)
        \/ Invoke(r)
        \/ Finish(r)

SpecColumns == Init /\ [][NextColumns]_vars

(***************************************************************************)
(* Properties.                                                             *)
(***************************************************************************)
Done(r) == pc[r] = "done"

\* get_handler was called and raised.
ResolutionFailed(r) == Done(r) /\ resolves[r] = 1 /\ handler[r] = NoHandler

\* The capability was called and raised.
CapabilityRaised(r) == Len(calls[r]) = 1 /\ calls[r][1].out.raised

IsEnvelope(body) == body.shape \in {"connect", "status", "query"}

IsFailureBody(body) ==
    \/ body.shape = "status" /\ body.success = FALSE
    \/ body.shape = "query" /\ body.type = "ERROR"

IsErrorQueryResponse(reply) ==
    /\ reply.status = 500
    /\ reply.body.shape = "query"
    /\ reply.body.type = "ERROR"
    /\ reply.body.error_code = 1
    /\ reply.body.error_message # NULL

\* The outcomes of the capability calls a request made, in order.
OutcomesOf(r) == [i \in 1..Len(calls[r]) |-> calls[r][i].out]

\* Two served requests that differ in nothing a response may depend on.
SameRequest(r1, r2) ==
    /\ Done(r1) /\ Done(r2)
    /\ op[r1] = op[r2]
    /\ req[r1] = req[r2]
    /\ resolves[r1] = resolves[r2]
    /\ (handler[r1] = NoHandler) = (handler[r2] = NoHandler)
    /\ OutcomesOf(r1) = OutcomesOf(r2)

\* C1: for every dispatch operation and every request body, the request
\* ends with one response of the operation itself, 200 or 500 with an
\* envelope-shaped body, and no fault reaches the transport layer.
C1_NoFaultEscapes ==
    \A r \in Requests :
        Done(r) /\ op[r] \in Ops =>
            /\ fault[r] = "none"
            /\ resp[r].status \in {200, 500}
            /\ IsEnvelope(resp[r].body)

\* C2: for check_connection, get_tables, get_columns, native_query and
\* query, a response whose body is a failure (success=false, or type
\* ERROR), raised or returned by the capability, has status 500.
C2_FailureIs500 ==
    \A r \in Requests :
        /\ Done(r)
        /\ op[r] \in QueryShaped \cup {"check_connection"}
        /\ resp[r] # NoResp
        /\ IsFailureBody(resp[r].body)
        => resp[r].status = 500

\* C3: when the descriptor of a /check_connection request resolves to a
\* handler, the body has success=true exactly when the handler's
\* check_connection returned success=true without raising, and the status
\* is 200 or 500.
C3_CheckConnectionIff ==
    \A r \in Requests :
        Done(r) /\ op[r] = "check_connection" /\ handler[r] # NoHandler =>
            /\ resp[r].status \in {200, 500}
            /\ resp[r].body.shape = "status"
            /\ Len(calls[r]) = 1
            /\ resp[r].body.success =
                 (/\ ~calls[r][1].out.raised
                  /\ calls[r][1].out.ret = StatusResponse(TRUE, NULL))

C3_Witness ==
    \E r \in Requests :
        /\ Done(r) /\ op[r] = "check_connection" /\ handler[r] # NoHandler
        /\ resp[r].status = 200
        /\ resp[r].body.success = TRUE

\* What the codec of /query cannot decode: a body that is not JSON, a
\* `query` that is missing or is not base64 text, bytes that do not
\* deserialize.
Undecodable(b) ==
    \/ b.kind \in {"absent", "nonjson"}
    \/ b.kind = "object" /\ b.query = Missing
    \/ b.kind = "object" /\ ~IsValidBase64(b.query)
    \/ ~DecodeQuery(b).ok

\* C4: a /query request whose body fails at a codec step (not JSON, no
\* `query`, `query` not valid base64, bytes that do not deserialize) is
\* answered 500 with a Query Response of type ERROR and a non-null
\* error_message, and no fault reaches the transport layer.
C4_UndecodableIs500 ==
    \A r \in Requests :
        Done(r) /\ op[r] = "query" /\ Undecodable(req[r]) =>
            /\ fault[r] = "none"
            /\ IsErrorQueryResponse(resp[r])

\* C5: on the six endpoints that resolve a handler, a request with
\* well-formed JSON whose resolution fails or whose capability raises is
\* answered 500 with the operation's failure body: FAIL and an error text
\* for connect, success=false and an error_message for check_connection,
\* type ERROR, error_code 1 and an error_message for the query-shaped four.
C5_FailureEnvelope ==
    \A r \in Requests :
        /\ op[r] \in Ops \ {"disconnect"}
        /\ req[r].kind \in {"object", "null", "list"}
        /\ ResolutionFailed(r) \/ (Done(r) /\ CapabilityRaised(r))
        => /\ fault[r] = "none"
           /\ resp[r].status = 500
           /\ CASE op[r] = "connect" ->
                     /\ resp[r].body.shape = "connect"
                     /\ resp[r].body.status = "FAIL"
                     /\ resp[r].body.error # NULL
                [] op[r] = "check_connection" ->
                     /\ resp[r].body.shape = "status"
                     /\ resp[r].body.success = FALSE
                     /\ resp[r].body.error_message # NULL
                [] OTHER -> IsErrorQueryResponse(resp[r])

C5_Witness ==
    \E r \in Requests :
        /\ op[r] = "native_query"
        /\ ResolutionFailed(r)
        /\ req[r].handler_type = UnknownType
        /\ IsErrorQueryResponse(resp[r])

\* C6: a query object encoded by the codec (serialize, base64, the `query`
\* string of the JSON body) is decoded by /query to an equal object, and
\* that object is the one passed to the handler's query capability.
C6_RoundTrip ==
    \A r \in Requests : \A o \in QueryObjects :
        op[r] = "query" /\ req[r].kind = "object" /\ req[r].query = EncodeQuery(o) =>
            /\ arg[r] = o
            /\ Done(r) => resolves[r] = 1
            /\ \A i \in 1..Len(calls[r]) :
                 calls[r][i].cap = "query" /\ calls[r][i].arg = o

C6_Witness ==
    \E r \in Requests :
        /\ Done(r) /\ op[r] = "query"
        /\ req[r].query = EncodeQuery(PyTuple1(300))
        /\ Len(calls[r]) = 1
        /\ calls[r][1].arg = PyTuple1(300)

\* C7: no state is shared between requests: every handler instance is
\* built by one request from that request's handler_type and
\* handler_kwargs and called by that request alone, and the response to a
\* request depends on its body and its handler's outcome only, whatever
\* was served before or alongside it.
C7_NoSharedState ==
    /\ \A r \in Requests :
         handler[r] # NoHandler =>
             handler[r] = [owner |-> r, type |-> req[r].handler_type,
                           kwargs |-> req[r].handler_kwargs]
    /\ \A r \in Requests : \A i \in 1..Len(calls[r]) :
         calls[r][i].inst = handler[r] /\ calls[r][i].inst.owner = r
    /\ \A r1, r2 \in Requests :
         SameRequest(r1, r2) => resp[r1] = resp[r2] /\ fault[r1] = fault[r2]

C7_Witness ==
    \E r1, r2 \in Requests :
        /\ r1 # r2
        /\ Done(r1) /\ op[r1] = "connect" /\ Len(calls[r1]) = 1
        /\ pc[r2] = "invoke" /\ op[r2] = "get_tables"
        /\ handler[r1].kwargs # handler[r2].kwargs

\* C8: no retries: a request calls get_handler at most once and at most
\* one capability at most once, and a failed resolution or capability is
\* answered once, with the request's error envelope.
C8_NoRetries ==
    \A r \in Requests :
        /\ resolves[r] <= 1
        /\ Len(calls[r]) <= 1
        /\ Len(calls[r]) = 1 => resolves[r] = 1 /\ calls[r][1].cap = op[r]
        /\ ~Done(r) => resp[r] = NoResp
        /\ ResolutionFailed(r) =>
             Len(calls[r]) = 0 /\ resp[r].status = 500 /\ IsEnvelope(resp[r].body)
        /\ Done(r) /\ CapabilityRaised(r) =>
             resp[r].status = 500 /\ IsEnvelope(resp[r].body)

C8_Witness ==
    \E r \in Requests :
        /\ Done(r) /\ op[r] = "query" /\ CapabilityRaised(r)
        /\ resolves[r] = 1
        /\ resp[r].status = 500

GetConnect == [method |-> "GET", path |-> "/connect"]

\* C9: connect and disconnect are both registered on GET /connect and
\* connect comes first, so every GET /connect is served by connect: the
\* disconnect operation never runs and the capability disconnect() is
\* never called.
C9_DisconnectUnreachable ==
    \A r \in Requests :
        /\ op[r] # "disconnect"
        /\ \A i \in 1..Len(calls[r]) : calls[r][i].cap # "disconnect"
        /\ route[r] = GetConnect => op[r] = "connect"

C9_Witness ==
    \E r \in Requests :
        /\ route[r] = GetConnect
        /\ Done(r) /\ op[r] = "connect"
        /\ Len(calls[r]) = 1 /\ calls[r][1].cap = "connect"
        /\ resp[r] = connect_return

\* A JSON object that carries handler_type and handler_kwargs, no `table`.
NoTable(b) ==
    /\ b.kind = "object"
    /\ b.handler_type # Missing
    /\ b.handler_kwargs # Missing
    /\ b.table = Missing

\* What get_columns answers to a capability outcome.
ColumnsAnswer(r, out) ==
    IF ~out.raised /\ to_json(out.ret).ok
    THEN resp[r] = Reply(200, to_json(out.ret).val)
    ELSE IsErrorQueryResponse(resp[r])

\* C10 as stated: for a JSON body with handler_type and handler_kwargs and
\* no `table`, get_columns is always called exactly once with a null table
\* name, and the response is 200 with its result or 500 with an ERROR-typed
\* Query Response if it raises; equal requests get equal responses.
C10_AlwaysInvoked ==
    /\ \A r \in Requests :
         Done(r) /\ op[r] = "get_columns" /\ NoTable(req[r]) =>
             /\ Len(calls[r]) = 1
             /\ calls[r][1].cap = "get_columns"
             /\ calls[r][1].arg = None
             /\ ColumnsAnswer(r, calls[r][1].out)
    /\ \A r1, r2 \in Requests :
         SameRequest(r1, r2) /\ op[r1] = "get_columns" /\ NoTable(req[r1]) =>
             resp[r1] = resp[r2]

\* C10 amended: for such a body get_handler is called once; when the
\* resolution succeeds, get_columns is called exactly once with a null
\* table name, and the response is 200 with its result, or 500 with an
\* ERROR-typed Query Response if the call or the serialization of its
\* result raises; when the resolution fails the response is that 500 and
\* nothing is called; equal requests get equal responses.
C10_InvokedWhenResolved ==
    /\ \A r \in Requests :
         Done(r) /\ op[r] = "get_columns" /\ NoTable(req[r]) =>
             /\ resolves[r] = 1
             /\ IF handler[r] # NoHandler
                THEN /\ Len(calls[r]) = 1
                     /\ calls[r][1].cap = "get_columns"
                     /\ calls[r][1].arg = None
                     /\ ColumnsAnswer(r, calls[r][1].out)
                ELSE Len(calls[r]) = 0 /\ IsErrorQueryResponse(resp[r])
    /\ \A r1, r2 \in Requests :
         SameRequest(r1, r2) /\ op[r1] = "get_columns" /\ NoTable(req[r1]) =>
             resp[r1] = resp[r2]

C10_Witness ==
    \E r1, r2 \in Requests :
        /\ r1 # r2
        /\ SameRequest(r1, r2)
        /\ op[r1] = "get_columns" /\ NoTable(req[r1])
        /\ Len(calls[r1]) = 1
        /\ calls[r1][1].arg = None
        /\ resp[r1].status = 200

====
